---- MODULE Spec2Model ----
(***************************************************************************)
(* reheat: the save/destroy lifecycle of a model instance                  *)
(* (lib/model/prototype/save.js, lib/model/prototype/destroy.js) on top of *)
(* Connection.run (lib/connection), a pool of database handles and the     *)
(* database engine.                                                        *)
(*                                                                         *)
(* A call of save or destroy is not atomic: it runs its synchronous part   *)
(* (argument checks, timestamp stamping, query construction, the call of   *)
(* Connection.run up to pool.acquire), then waits for a handle, then for   *)
(* the engine, and finally runs its callback.  Other calls, on the same    *)
(* instance or on another one, may run in between.                         *)
(***************************************************************************)
EXTENDS Integers, Sequences, FiniteSets, TLC

\* ------------------------------------------------------------------ bounds
\* Number of save/destroy calls made in one behaviour.
MaxCalls == 2
\* Number of times the caller changes an attribute with set in one behaviour.
MaxSets == 1
\* Number of calls made with arguments of every type (SpecArgs).
MaxArgCalls == 1
\* Number of Connection.run calls made directly on the Connection (SpecConn).
MaxRuns == 2
\* Number of configure calls that replace the pool (SpecConn, SpecConfigure).
MaxConfigures == 1
\* The largest pool size a configure call asks for (SpecConn).
MaxPoolMax == 2
\* Number of callers of acquire and run that queue on one pool (SpecQueue).
MaxClients == 3
\* The largest priorityRange a Connection is constructed with (SpecQueue).
MaxPriorityRange == 2

\* ------------------------------------------------------------------ program constants
\* defaults.max of the Connection: the pool's size when none is configured.
defaultMax == 1

\* ------------------------------------------------------------------ values
\* A JavaScript value of an attribute, as a tagged pair.  Absent is a key that
\* the mapping does not hold, Null is null, NowTerm is the unevaluated ReQL
\* term r.now(), Time(t) a time returned by the server, Key(n) a primary key
\* and Str(n) a string.
Absent == <<"absent", 0>>
Null == <<"null", 0>>
NowTerm == <<"now", 0>>
Time(t) == <<"time", t>>
Key(n) == <<"key", n>>
Str(n) == <<"str", n>>

\* The attribute names the model follows.
Keys == {"id", "name", "created", "updated", "deleted"}

\* The mapping without any key ({}).
EmptyAttrs == [k \in Keys |-> Absent]

\* The instances, and the names a caller gives to the attribute `name`.
Instances == {1, 2}
Names == {Str(1), Str(2)}

\* The primary keys rows are stored under: Key(1) is a row written before
\* the behaviour starts, the others are generated by inserts.
RowKeys == 1 .. (MaxCalls + 1)

CallIds == 1 .. MaxCalls

VARIABLES
    idAttribute,        \* Model.idAttribute
    timestamps,         \* Model.timestamps
    softDelete,         \* Model.softDelete
    max,                \* the pool option max of Model.connection
    attributes,         \* instance.attributes, per instance
    previousAttributes, \* instance.previousAttributes: <<>> (unset) or <<mapping>>
    meta,               \* instance.meta: <<>> (unset) or <<write result>>
    table,              \* the engine's table: per row key <<>> or <<row>>
    now,                \* the engine's clock
    nextKey,            \* the next primary key the engine generates
    live,               \* handles the pool has created and not destroyed
    idle,               \* handles of the pool that are not checked out
    waiting,            \* callers queued in pool.acquire, in arrival order
    calls,              \* the save/destroy calls in progress, per call id
    sets,               \* the number of changes the caller has made with set
    last,               \* the call that has just ended (its callback is running,
                        \* or its exception propagating); NoLast otherwise
    connConfig,         \* a Connection's _config, per configuration key
    connPool,           \* a Connection's _pool: the index of its current pool
    pools,              \* the pools the Connection has created, per index
    opened,             \* the number of handles r.connect has opened so far
    closed,             \* the handles that conn.close() has closed
    holder,             \* per handle, the run call it is checked out to (0: none)
    runs,               \* the Connection.run calls made directly, per run id
    configures,         \* the number of configure calls that replaced the pool
    ended               \* the run or configure call that has just ended or
                        \* called back; NoEnded otherwise

vars == <<idAttribute, timestamps, softDelete, max, attributes, previousAttributes,
          meta, table, now, nextKey, live, idle, waiting, calls, sets, last,
          connConfig, connPool, pools, opened, closed, holder, runs, configures, ended>>

config == <<idAttribute, timestamps, softDelete, max>>
\* The Connection used on its own.
connection == <<connConfig, connPool, pools, opened, closed, holder, runs, configures, ended>>
engine == <<table, now, nextKey>>
pool == <<live, idle, waiting>>

\* ------------------------------------------------------------------ errors
\* An error is the sequence of its wrappers, outermost first, ending with the
\* original error: UnhandledError(e) wraps e.
IllegalArgumentError == <<"IllegalArgumentError">>
UnhandledError(e) == <<"UnhandledError">> \o e
NoError == <<>>

BuildError == <<"BuildError">>       \* thrown while the query is constructed
ConnectError == <<"ConnectError">>   \* r.connect failed in pool.acquire
DriverError == <<"DriverError">>     \* query.run called back with an error
InsertFailed == <<"insert failed">>  \* save.js's default for a missing first_error
FirstError == <<"first_error">>      \* the result's first_error

\* ------------------------------------------------------------------ utils
\* utils.isFunction / utils.isObject on the type of an argument.
isFunction(type) == type = "function"
isObject(type) == type = "object"
\* JavaScript truthiness of options.context by its type.
truthy(type) == type \in {"object", "string"}

\* utils.deepMixIn(target, source): every key of source overwrites target's;
\* a null source (<<>>) leaves target as it is.
deepMixIn(target, source) ==
    IF source = <<>> THEN target
    ELSE [k \in Keys |-> IF source[1][k] # Absent THEN source[1][k] ELSE target[k]]

\* Model#isNew(): the primary-key attribute is absent or null.
isNew(attrs) == attrs[idAttribute] \in {Absent, Null}

\* ------------------------------------------------------------------ records
NoQuery == [kind |-> "none", key |-> Absent, doc |-> EmptyAttrs]

NoOut == [how |-> "none", err |-> NoError, recv |-> "none", nargs |-> 0,
          inst |-> 0, meta |-> <<>>]

\* A call in progress: the operation, its instance, where it stands (pc),
\* the types of its arguments options and cb (after lines 46-49 of save.js
\* have shifted them) and of options.context, the attributes and isNew()
\* when it was made, the query it issued, the handle it holds and the
\* engine's result.
NoCall == [op |-> "none", inst |-> 0, pc |-> "idle", options |-> "none", cb |-> "none",
           context |-> "absent", wasNew |-> FALSE, pre |-> EmptyAttrs, q |-> NoQuery,
           conn |-> 0, cursor |-> <<>>]
\* A call that has ended.
DoneCall == [NoCall EXCEPT !.pc = "done"]

\* The record of an ended call: the call as it stood, the number of writes
\* it handed to Connection.run, what it did with its callback, and the
\* instance's attributes right before its last step (before) and as that
\* step left them (post).
NoLast == [call |-> NoCall, issued |-> 0, out |-> NoOut,
           before |-> EmptyAttrs, post |-> EmptyAttrs]

\* The values of the argument `options` and of options.context, by type; the
\* values of the argument `cb`.
OptionTypes == {"function", "object", "number", "null"}
ContextTypes == {"absent", "object", "string"}
CbTypes == {"function", "undefined"}
\* Where query construction throws: nowhere, in r.table(), or in insert/update.
ThrowPoints == {"none", "table", "write"}

\* ------------------------------------------------------------------ outcomes
\* What a call did with its completion callback: threw instead of calling it,
\* or called it on receiver recv with nargs arguments (err, instance, meta).
Thrown(e) == [NoOut EXCEPT !.how = "thrown", !.err = e]
Called(recv, e, nargs, inst, m) ==
    [how |-> "called", err |-> e, recv |-> recv, nargs |-> nargs, inst |-> inst, meta |-> m]

\* Receiver with options.context ignored: cb.apply(_this, ...).
ReceiverIgnoresContext(context) == "instance"

\* The receiver of cb.apply(...): options.context if it is truthy, else the
\* instance.
Receiver(context) == IF truthy(context) THEN "context" ELSE "instance"

\* The final handler of save's waterfall, and its catch block.
SaveFinal(context, err, inst, cursor) ==
    IF err # NoError
    THEN Called(Receiver(context), UnhandledError(err), 1, 0, <<>>)
    ELSE Called(Receiver(context), NoError, 3, inst, cursor)

\* ------------------------------------------------------------------ save, synchronous part
\* The timestamps save writes into the attributes before it builds the query.
Stamp(attrs) ==
    IF timestamps
    THEN LET a == IF isNew(attrs)
                  THEN [attrs EXCEPT !["created"] = NowTerm, !["deleted"] = Null]
                  ELSE attrs
         IN  [a EXCEPT !["updated"] = NowTerm]
    ELSE attrs

\* The write save builds from the (stamped) attributes.
SaveQuery(attrs) ==
    IF isNew(attrs)
    THEN [kind |-> "insert", key |-> Absent, doc |-> attrs]
    ELSE [kind |-> "update", key |-> attrs[idAttribute], doc |-> attrs]

\* ArgCheck without the test of line 52 that options is an object.
ArgCheckSkipsOptions(optType, ctxType, cbType) ==
    LET cb == IF isFunction(optType) THEN optType ELSE cbType
        context == IF isFunction(optType) THEN "absent" ELSE ctxType
    IN  IF ~isFunction(cb) THEN "throw"
        ELSE IF truthy(context) /\ ~isObject(context) THEN "callback"
        ELSE "ok"

\* The argument checks of save and destroy: "throw", "callback" (the
\* IllegalArgumentError goes to cb) or "ok".
ArgCheck(optType, ctxType, cbType) ==
    LET cb == IF isFunction(optType) THEN optType ELSE cbType
        options == IF isFunction(optType) THEN "object" ELSE optType
        context == IF isFunction(optType) THEN "absent" ELSE ctxType
    IN  IF ~isFunction(cb) THEN "throw"
        ELSE IF ~isObject(options) THEN "callback"
        ELSE IF truthy(context) /\ ~isObject(context) THEN "callback"
        ELSE "ok"

\* Connection.run's argument checks, as save and destroy call it.
RunArgCheck(hasQuery, optType, cbType) ==
    LET cb == IF isFunction(optType) THEN optType ELSE cbType
        options == IF optType \in {"null", "undefined"} \/ isFunction(optType)
                   THEN "object" ELSE optType
    IN  IF ~isFunction(cb) THEN "throw"
        ELSE IF ~hasQuery THEN "callback"
        ELSE IF ~isObject(options) THEN "callback"
        ELSE "ok"

\* SaveSync with the timestamps written before the arguments are checked.
SaveSyncStampsFirst(attrs, optType, ctxType, cbType, throwAt) ==
    LET check == ArgCheck(optType, ctxType, cbType)
        stamped == Stamp(attrs)
    IN  IF check = "throw"
        THEN [attrs |-> stamped, pc |-> "done", q |-> NoQuery, issued |-> 0,
              out |-> Thrown(IllegalArgumentError)]
        ELSE IF check = "callback"
        THEN [attrs |-> stamped, pc |-> "done", q |-> NoQuery, issued |-> 0,
              out |-> Called("unbound", IllegalArgumentError, 1, 0, <<>>)]
        ELSE IF throwAt = "table"
        THEN [attrs |-> attrs, pc |-> "done", q |-> NoQuery, issued |-> 0,
              out |-> SaveFinal(ctxType, BuildError, 0, <<>>)]
        ELSE IF throwAt = "write"
        THEN [attrs |-> stamped, pc |-> "done", q |-> NoQuery, issued |-> 0,
              out |-> SaveFinal(ctxType, BuildError, 0, <<>>)]
        ELSE IF RunArgCheck(TRUE, "object", "function") = "ok"
        THEN [attrs |-> stamped, pc |-> "waiting", q |-> SaveQuery(stamped), issued |-> 1,
              out |-> NoOut]
        ELSE [attrs |-> stamped, pc |-> "done", q |-> SaveQuery(stamped), issued |-> 1,
              out |-> SaveFinal(ctxType, IllegalArgumentError, 0, <<>>)]

\* The synchronous part of save on an instance with attributes attrs: the
\* attributes it leaves, where the call stands and the query it issued.
SaveSync(attrs, optType, ctxType, cbType, throwAt) ==
    LET check == ArgCheck(optType, ctxType, cbType)
        stamped == Stamp(attrs)
    IN  IF check = "throw"
        THEN [attrs |-> attrs, pc |-> "done", q |-> NoQuery, issued |-> 0,
              out |-> Thrown(IllegalArgumentError)]
        ELSE IF check = "callback"
        THEN [attrs |-> attrs, pc |-> "done", q |-> NoQuery, issued |-> 0,
              out |-> Called("unbound", IllegalArgumentError, 1, 0, <<>>)]
        ELSE IF throwAt = "table"
        THEN [attrs |-> attrs, pc |-> "done", q |-> NoQuery, issued |-> 0,
              out |-> SaveFinal(ctxType, BuildError, 0, <<>>)]
        ELSE IF throwAt = "write"
        THEN [attrs |-> stamped, pc |-> "done", q |-> NoQuery, issued |-> 0,
              out |-> SaveFinal(ctxType, BuildError, 0, <<>>)]
        ELSE IF RunArgCheck(TRUE, "object", "function") = "ok"
        THEN [attrs |-> stamped, pc |-> "waiting", q |-> SaveQuery(stamped), issued |-> 1,
              out |-> NoOut]
        ELSE [attrs |-> stamped, pc |-> "done", q |-> SaveQuery(stamped), issued |-> 1,
              out |-> SaveFinal(ctxType, IllegalArgumentError, 0, <<>>)]

\* A call's record as it starts.
StartCall(op, i, optType, ctxType, cbType, sync) ==
    [NoCall EXCEPT !.op = op, !.inst = i,
                   !.options = IF isFunction(optType) THEN "object" ELSE optType,
                   !.cb = IF isFunction(optType) THEN optType ELSE cbType,
                   !.context = IF isFunction(optType) THEN "absent" ELSE ctxType,
                   !.wasNew = isNew(attributes[i]), !.pre = attributes[i],
                   !.pc = sync.pc, !.q = sync.q]

\* The record of a call that ends in its synchronous part.
EndedAtOnce(op, i, optType, ctxType, cbType, sync) ==
    [call |-> StartCall(op, i, optType, ctxType, cbType, sync),
     issued |-> sync.issued, out |-> sync.out,
     before |-> attributes[i], post |-> sync.attrs]

\* The next call id to use: calls are numbered in the order they are made.
FreeCall(c) == calls[c].pc = "idle" /\ (IF c = 1 THEN TRUE ELSE calls[c - 1].pc # "idle")

\* A call starts on instance i: it waits for a handle, or has ended already.
Begin(c, op, i, optType, ctxType, cbType, sync) ==
    IF sync.pc = "waiting"
    THEN /\ calls' = [calls EXCEPT ![c] = StartCall(op, i, optType, ctxType, cbType, sync)]
         /\ waiting' = Append(waiting, c)
         /\ last' = NoLast
    ELSE /\ calls' = [calls EXCEPT ![c] = DoneCall]
         /\ waiting' = waiting
         /\ last' = EndedAtOnce(op, i, optType, ctxType, cbType, sync)

\* instance.save(options, cb)
SaveCall(c, i, optType, ctxType, cbType, throwAt) ==
    /\ FreeCall(c)
    /\ ctxType # "absent" => optType = "object"
    /\ LET sync == SaveSync(attributes[i], optType, ctxType, cbType, throwAt)
       IN  /\ throwAt # "none" => ArgCheck(optType, ctxType, cbType) = "ok"
           /\ attributes' = [attributes EXCEPT ![i] = sync.attrs]
           /\ Begin(c, "save", i, optType, ctxType, cbType, sync)
    /\ UNCHANGED <<config, connection, engine, live, idle, previousAttributes, meta, sets>>

\* ------------------------------------------------------------------ pool
\* pool.acquire serves the callers in arrival order: the first waiting caller
\* gets an idle handle, or a new one while fewer than max exist.
FreshHandle == CHOOSE h \in 1 .. max : h \notin live

\* pool.release(handle)
Release(h) == IF h = 0 THEN idle ELSE idle \cup {h}

\* The first waiting caller is given a handle; its query goes to the engine
\* (options.connection = conn; query.run(options, next)).
Acquire(c) ==
    /\ waiting # <<>> /\ Head(waiting) = c
    /\ calls[c].pc = "waiting"
    /\ \/ /\ idle # {}
          /\ LET h == CHOOSE x \in idle : \A y \in idle : x <= y
             IN  /\ idle' = idle \ {h}
                 /\ calls' = [calls EXCEPT ![c].conn = h, ![c].pc = "sent"]
          /\ live' = live
       \/ /\ idle = {} /\ Cardinality(live) < max
          /\ live' = live \cup {FreshHandle}
          /\ calls' = [calls EXCEPT ![c].conn = FreshHandle, ![c].pc = "sent"]
          /\ idle' = idle
    /\ waiting' = Tail(waiting)
    /\ last' = NoLast
    /\ UNCHANGED <<config, connection, engine, attributes, previousAttributes, meta, sets>>

\* ------------------------------------------------------------------ engine
\* The engine evaluates r.now() once per query, to its clock.
Eval(doc, t) == [k \in Keys |-> IF doc[k] = NowTerm THEN Time(t) ELSE doc[k]]

\* The row stored under a primary-key value, <<>> if there is none.
RowAt(tbl, key) == IF key[1] = "key" /\ key[2] \in RowKeys THEN tbl[key[2]] ELSE <<>>

\* A write result (the `cursor` of save.js).
Cursor(errs, first, ins, rep, unch, skip, del, old, new) ==
    [errors |-> errs, first_error |-> first, inserted |-> ins, replaced |-> rep,
     unchanged |-> unch, skipped |-> skip, deleted |-> del, old_val |-> old, new_val |-> new]

ErrorCursor == Cursor(1, "first_error", 0, 0, 0, 0, 0, <<>>, <<>>)

\* The engine's execution of query q on table tbl at time t, generating
\* primary key k: the new table and the write result.  fail: the engine
\* reports a write error and writes nothing, as it does for an insert with a
\* null primary key and for an update that would change the primary key.
Execute(tbl, q, t, k, fail) ==
    IF fail THEN [table |-> tbl, cursor |-> ErrorCursor, keys |-> 0]
    ELSE IF q.kind = "insert"
    THEN IF q.doc[idAttribute] = Null
         THEN [table |-> tbl, cursor |-> ErrorCursor, keys |-> 0]
         ELSE LET row == [Eval(q.doc, t) EXCEPT ![idAttribute] = Key(k)]
              IN  [table |-> [tbl EXCEPT ![k] = <<row>>],
                   cursor |-> Cursor(0, "", 1, 0, 0, 0, 0, <<>>, <<row>>),
                   keys |-> 1]
    ELSE LET old == RowAt(tbl, q.key)
         IN  IF old = <<>>
             THEN [table |-> tbl, cursor |-> Cursor(0, "", 0, 0, 0, 1, 0, <<>>, <<>>),
                   keys |-> 0]
             ELSE IF q.kind = "update"
             THEN LET row == deepMixIn(old[1], <<Eval(q.doc, t)>>)
                  IN  IF row[idAttribute] # old[1][idAttribute]
                      THEN [table |-> tbl, cursor |-> ErrorCursor, keys |-> 0]
                      ELSE [table |-> [tbl EXCEPT ![q.key[2]] = <<row>>],
                            cursor |-> IF row = old[1]
                                       THEN Cursor(0, "", 0, 0, 1, 0, 0, old, <<row>>)
                                       ELSE Cursor(0, "", 0, 1, 0, 0, 0, old, <<row>>),
                            keys |-> 0]
             ELSE [table |-> [tbl EXCEPT ![q.key[2]] = <<>>],
                   cursor |-> Cursor(0, "", 0, 0, 0, 0, 1, old, <<>>),
                   keys |-> 0]

\* The engine runs the query of call c; the result travels back.
EngineExec(c, fail) ==
    /\ calls[c].pc = "sent"
    /\ LET r == Execute(table, calls[c].q, now, nextKey, fail)
       IN  /\ table' = r.table
           /\ nextKey' = nextKey + r.keys
           /\ calls' = [calls EXCEPT ![c].cursor = <<r.cursor>>, ![c].pc = "executed"]
    /\ now' = now + 1
    /\ last' = NoLast
    /\ UNCHANGED <<config, connection, pool, attributes, previousAttributes, meta, sets>>

\* ------------------------------------------------------------------ Connection.run, final handler
\* What Connection.run passes to its callback: (UnhandledError(err)) or
\* (null, result).
RunFinal(err, result) ==
    IF err # NoError
    THEN [err |-> UnhandledError(err), result |-> <<>>]
    ELSE [err |-> NoError, result |-> result]

\* SaveComplete that also copies the attributes it is about to overwrite
\* into previousAttributes.
SaveCompleteSnapshots(c, runErr) ==
    LET call == calls[c]
        i == call.inst
        res == RunFinal(runErr, call.cursor)
        same == [attrs |-> attributes[i], prev |-> previousAttributes[i], meta |-> meta[i]]
    IN  IF res.err # NoError
        THEN [out |-> SaveFinal(call.context, res.err, 0, <<>>)] @@ same
        ELSE LET cursor == res.result[1]
             IN  IF cursor.errors # 0
                 THEN [out |-> SaveFinal(call.context,
                                         IF cursor.first_error # ""
                                         THEN <<cursor.first_error>> ELSE InsertFailed,
                                         0, <<>>)] @@ same
                 ELSE [attrs |-> deepMixIn(attributes[i], cursor.new_val),
                       prev |-> <<attributes[i]>>,
                       meta |-> meta[i],
                       out |-> SaveFinal(call.context, NoError, i, res.result)]

\* SaveComplete with the attributes replaced by new_val instead of merged
\* with it.
SaveCompleteReplaces(c, runErr) ==
    LET call == calls[c]
        i == call.inst
        res == RunFinal(runErr, call.cursor)
        same == [attrs |-> attributes[i], prev |-> previousAttributes[i], meta |-> meta[i]]
    IN  IF res.err # NoError
        THEN [out |-> SaveFinal(call.context, res.err, 0, <<>>)] @@ same
        ELSE LET cursor == res.result[1]
             IN  IF cursor.errors # 0
                 THEN [out |-> SaveFinal(call.context,
                                         IF cursor.first_error # ""
                                         THEN <<cursor.first_error>> ELSE InsertFailed,
                                         0, <<>>)] @@ same
                 ELSE [attrs |-> IF cursor.new_val = <<>> THEN EmptyAttrs
                                 ELSE cursor.new_val[1],
                       prev |-> previousAttributes[i],
                       meta |-> meta[i],
                       out |-> SaveFinal(call.context, NoError, i, res.result)]

\* SaveComplete without the test of the write result's error count.
SaveCompleteIgnoresErrors(c, runErr) ==
    LET call == calls[c]
        i == call.inst
        res == RunFinal(runErr, call.cursor)
        same == [attrs |-> attributes[i], prev |-> previousAttributes[i], meta |-> meta[i]]
    IN  IF res.err # NoError
        THEN [out |-> SaveFinal(call.context, res.err, 0, <<>>)] @@ same
        ELSE LET cursor == res.result[1]
             IN  [attrs |-> deepMixIn(attributes[i], cursor.new_val),
                  prev |-> previousAttributes[i],
                  meta |-> meta[i],
                  out |-> SaveFinal(call.context, NoError, i, res.result)]

\* ------------------------------------------------------------------ save, after Connection.run
\* The second step of save's waterfall and its final handler, for call c
\* whose Connection.run ended with runErr (NoError: with the call's cursor).
SaveComplete(c, runErr) ==
    LET call == calls[c]
        i == call.inst
        res == RunFinal(runErr, call.cursor)
        same == [attrs |-> attributes[i], prev |-> previousAttributes[i], meta |-> meta[i]]
    IN  IF res.err # NoError
        THEN [out |-> SaveFinal(call.context, res.err, 0, <<>>)] @@ same
        ELSE LET cursor == res.result[1]
             IN  IF cursor.errors # 0
                 THEN [out |-> SaveFinal(call.context,
                                         IF cursor.first_error # ""
                                         THEN <<cursor.first_error>> ELSE InsertFailed,
                                         0, <<>>)] @@ same
                 ELSE [attrs |-> deepMixIn(attributes[i], cursor.new_val),
                       prev |-> previousAttributes[i],
                       meta |-> meta[i],
                       out |-> SaveFinal(call.context, NoError, i, res.result)]

\* ------------------------------------------------------------------ destroy
\* DestroyQuery with a soft delete that never sets updated.
DestroyQueryNoUpdated(attrs) ==
    IF softDelete
    THEN [kind |-> "update", key |-> attrs[idAttribute],
          doc |-> [EmptyAttrs EXCEPT !["deleted"] = NowTerm]]
    ELSE [kind |-> "delete", key |-> attrs[idAttribute], doc |-> EmptyAttrs]

\* The write destroy builds: an update that sets deleted (and updated, with
\* timestamps) for a soft delete, a delete otherwise.
DestroyQuery(attrs) ==
    IF softDelete
    THEN [kind |-> "update", key |-> attrs[idAttribute],
          doc |-> [EmptyAttrs EXCEPT !["deleted"] = NowTerm,
                                     !["updated"] = IF timestamps THEN NowTerm ELSE Absent]]
    ELSE [kind |-> "delete", key |-> attrs[idAttribute], doc |-> EmptyAttrs]

\* DestroySync without the isNew() shortcut: a new instance's destroy goes to
\* the database like any other.
DestroySyncAlwaysWrites(i, attrs, optType, ctxType, cbType, throwAt) ==
    LET check == ArgCheck(optType, ctxType, cbType)
    IN  IF check = "throw"
        THEN [attrs |-> attrs, pc |-> "done", q |-> NoQuery, issued |-> 0,
              out |-> Thrown(IllegalArgumentError)]
        ELSE IF check = "callback"
        THEN [attrs |-> attrs, pc |-> "done", q |-> NoQuery, issued |-> 0,
              out |-> Called("unbound", IllegalArgumentError, 1, 0, <<>>)]
        ELSE IF throwAt # "none"
        THEN [attrs |-> attrs, pc |-> "done", q |-> NoQuery, issued |-> 0,
              out |-> SaveFinal(ctxType, BuildError, 0, <<>>)]
        ELSE [attrs |-> attrs, pc |-> "waiting", q |-> DestroyQuery(attrs), issued |-> 1,
              out |-> NoOut]

\* The synchronous part of destroy on instance i with attributes attrs.
DestroySync(i, attrs, optType, ctxType, cbType, throwAt) ==
    LET check == ArgCheck(optType, ctxType, cbType)
    IN  IF check = "throw"
        THEN [attrs |-> attrs, pc |-> "done", q |-> NoQuery, issued |-> 0,
              out |-> Thrown(IllegalArgumentError)]
        ELSE IF check = "callback"
        THEN [attrs |-> attrs, pc |-> "done", q |-> NoQuery, issued |-> 0,
              out |-> Called("unbound", IllegalArgumentError, 1, 0, <<>>)]
        ELSE IF isNew(attrs)
        THEN [attrs |-> attrs, pc |-> "done", q |-> NoQuery, issued |-> 0,
              out |-> Called(Receiver(ctxType), NoError, 2, i, <<>>)]
        ELSE IF throwAt # "none"
        THEN [attrs |-> attrs, pc |-> "done", q |-> NoQuery, issued |-> 0,
              out |-> SaveFinal(ctxType, BuildError, 0, <<>>)]
        ELSE [attrs |-> attrs, pc |-> "waiting", q |-> DestroyQuery(attrs), issued |-> 1,
              out |-> NoOut]

\* instance.destroy(options, cb)
DestroyCall(c, i, optType, ctxType, cbType, throwAt) ==
    /\ FreeCall(c)
    /\ ctxType # "absent" => optType = "object"
    /\ LET sync == DestroySync(i, attributes[i], optType, ctxType, cbType, throwAt)
       IN  /\ throwAt # "none" =>
                  ArgCheck(optType, ctxType, cbType) = "ok" /\ ~isNew(attributes[i])
           /\ Begin(c, "destroy", i, optType, ctxType, cbType, sync)
    /\ UNCHANGED <<config, connection, engine, live, idle, attributes, previousAttributes, meta, sets>>

\* DestroyComplete with a physical destroy that leaves the primary key in the
\* attributes and does not store the result in meta.
DestroyCompleteKeepsKey(c, runErr) ==
    LET call == calls[c]
        i == call.inst
        res == RunFinal(runErr, call.cursor)
        same == [attrs |-> attributes[i], prev |-> previousAttributes[i], meta |-> meta[i]]
    IN  IF res.err # NoError
        THEN [out |-> SaveFinal(call.context, res.err, 0, <<>>)] @@ same
        ELSE LET cursor == res.result[1]
             IN  IF cursor.errors # 0
                 THEN [out |-> SaveFinal(call.context, <<cursor.first_error>>, 0, <<>>)] @@ same
                 ELSE [attrs |-> IF softDelete
                                 THEN deepMixIn(attributes[i], cursor.new_val)
                                 ELSE attributes[i],
                       prev |-> cursor.old_val,
                       meta |-> meta[i],
                       out |-> SaveFinal(call.context, NoError, i, res.result)]

\* DestroyComplete with previousAttributes set to a copy of the attributes as
\* they were before the result arrived.
DestroyCompleteSnapshots(c, runErr) ==
    LET call == calls[c]
        i == call.inst
        res == RunFinal(runErr, call.cursor)
        same == [attrs |-> attributes[i], prev |-> previousAttributes[i], meta |-> meta[i]]
    IN  IF res.err # NoError
        THEN [out |-> SaveFinal(call.context, res.err, 0, <<>>)] @@ same
        ELSE LET cursor == res.result[1]
             IN  IF cursor.errors # 0
                 THEN [out |-> SaveFinal(call.context, <<cursor.first_error>>, 0, <<>>)] @@ same
                 ELSE [attrs |-> IF softDelete
                                 THEN deepMixIn(attributes[i], cursor.new_val)
                                 ELSE [attributes[i] EXCEPT ![idAttribute] = Absent],
                       prev |-> <<attributes[i]>>,
                       meta |-> res.result,
                       out |-> SaveFinal(call.context, NoError, i, res.result)]

\* DestroyComplete with a physical destroy that empties the attributes and
\* does not touch previousAttributes.
DestroyCompleteClears(c, runErr) ==
    LET call == calls[c]
        i == call.inst
        res == RunFinal(runErr, call.cursor)
        same == [attrs |-> attributes[i], prev |-> previousAttributes[i], meta |-> meta[i]]
    IN  IF res.err # NoError
        THEN [out |-> SaveFinal(call.context, res.err, 0, <<>>)] @@ same
        ELSE LET cursor == res.result[1]
             IN  IF cursor.errors # 0
                 THEN [out |-> SaveFinal(call.context, <<cursor.first_error>>, 0, <<>>)] @@ same
                 ELSE [attrs |-> IF softDelete
                                 THEN deepMixIn(attributes[i], cursor.new_val)
                                 ELSE EmptyAttrs,
                       prev |-> previousAttributes[i],
                       meta |-> res.result,
                       out |-> SaveFinal(call.context, NoError, i, res.result)]

\* What destroy does when Connection.run has ended with runErr, for call c.
DestroyComplete(c, runErr) ==
    LET call == calls[c]
        i == call.inst
        res == RunFinal(runErr, call.cursor)
        same == [attrs |-> attributes[i], prev |-> previousAttributes[i], meta |-> meta[i]]
    IN  IF res.err # NoError
        THEN [out |-> SaveFinal(call.context, res.err, 0, <<>>)] @@ same
        ELSE LET cursor == res.result[1]
             IN  IF cursor.errors # 0
                 THEN [out |-> SaveFinal(call.context, <<cursor.first_error>>, 0, <<>>)] @@ same
                 ELSE [attrs |-> IF softDelete
                                 THEN deepMixIn(attributes[i], cursor.new_val)
                                 ELSE [attributes[i] EXCEPT ![idAttribute] = Absent],
                       prev |-> cursor.old_val,
                       meta |-> res.result,
                       out |-> SaveFinal(call.context, NoError, i, res.result)]

\* ------------------------------------------------------------------ Connection.run calls back
\* Complete with the attributes it computes written to every instance.
CompleteSharesAttributes(c, runErr) ==
    LET call == calls[c]
        i == call.inst
        r == IF call.op = "save" THEN SaveComplete(c, runErr) ELSE DestroyComplete(c, runErr)
    IN  /\ idle' = Release(call.conn)
        /\ attributes' = [j \in Instances |-> r.attrs]
        /\ previousAttributes' = [previousAttributes EXCEPT ![i] = r.prev]
        /\ meta' = [meta EXCEPT ![i] = r.meta]
        /\ calls' = [calls EXCEPT ![c] = DoneCall]
        /\ last' = [call |-> call, issued |-> 1, out |-> r.out,
                    before |-> attributes[i], post |-> r.attrs]

\* Connection.run's final handler for call c (it releases the handle first),
\* followed by the rest of the save or destroy that called it.
Complete(c, runErr) ==
    LET call == calls[c]
        i == call.inst
        r == IF call.op = "save" THEN SaveComplete(c, runErr) ELSE DestroyComplete(c, runErr)
    IN  /\ idle' = Release(call.conn)
        /\ attributes' = [attributes EXCEPT ![i] = r.attrs]
        /\ previousAttributes' = [previousAttributes EXCEPT ![i] = r.prev]
        /\ meta' = [meta EXCEPT ![i] = r.meta]
        /\ calls' = [calls EXCEPT ![c] = DoneCall]
        /\ last' = [call |-> call, issued |-> 1, out |-> r.out,
                    before |-> attributes[i], post |-> r.attrs]

\* The driver delivers the engine's result of call c.
RunCallback(c) ==
    /\ calls[c].pc = "executed"
    /\ Complete(c, NoError)
    /\ UNCHANGED <<config, connection, engine, live, waiting, sets>>

\* The driver calls back with an error (the connection broke), before or
\* after the engine ran the query.
DriverFail(c) ==
    /\ calls[c].pc \in {"sent", "executed"}
    /\ Complete(c, DriverError)
    /\ UNCHANGED <<config, connection, engine, live, waiting, sets>>

\* pool.acquire fails for the first waiting caller: the pool had to create a
\* handle and r.connect called back with an error.
AcquireFail(c) ==
    /\ waiting # <<>> /\ Head(waiting) = c
    /\ calls[c].pc = "waiting"
    /\ idle = {} /\ Cardinality(live) < max
    /\ waiting' = Tail(waiting)
    /\ Complete(c, ConnectError)
    /\ UNCHANGED <<config, connection, engine, live, sets>>

\* ------------------------------------------------------------------ the caller changes an attribute
\* instance.setSync('name', v)
Set(i, v) ==
    /\ sets < MaxSets
    /\ attributes[i]["name"] # v
    /\ attributes' = [attributes EXCEPT ![i]["name"] = v]
    /\ sets' = sets + 1
    /\ last' = NoLast
    /\ UNCHANGED <<config, connection, engine, pool, previousAttributes, meta, calls>>

\* ------------------------------------------------------------------ Connection: configuration
\* The values of configuration options, as tagged pairs: a number, a string
\* (0: the empty string), a boolean (0: false), a function, an object.
Num(n) == <<"number", n>>
Text(n) == <<"string", n>>
Bool(n) == <<"boolean", n>>
Fn == <<"function", 1>>
Obj == <<"object", 1>>
\* JavaScript truthiness of such a value (Absent: the key is not supplied).
isTruthy(v) == v[2] # 0

ConfigKeys == {"port", "host", "db", "authKey", "name", "max", "min", "idleTimeoutMillis",
               "log", "refreshIdle", "reapIntervalMillis", "priorityRange"}
NumberKeys == {"port", "max", "min", "idleTimeoutMillis", "reapIntervalMillis", "priorityRange"}
StringKeys == {"host", "db", "authKey", "name"}

\* The type _configure expects of option k.
HasType(v, k) ==
    IF k \in NumberKeys THEN v[1] = "number"
    ELSE IF k \in StringKeys THEN v[1] = "string"
    ELSE IF k = "log" THEN v[1] \in {"boolean", "function"}
    ELSE v[1] = "boolean"

\* Connection~defaults
defaults ==
    [k \in ConfigKeys |->
        CASE k = "port" -> Num(28015)
          [] k = "host" -> Text(1)
          [] k = "db" -> Text(2)
          [] k = "authKey" -> Text(0)
          [] k = "name" -> Text(0)
          [] k = "max" -> Num(defaultMax)
          [] k = "min" -> Num(0)
          [] k = "log" -> Bool(0)
          [] k = "idleTimeoutMillis" -> Num(30000)
          [] k = "refreshIdle" -> Bool(1)
          [] k = "reapIntervalMillis" -> Num(1000)
          [] k = "priorityRange" -> Num(1)]

\* An options object: per key a value, or Absent.
NoOptions == [k \in ConfigKeys |-> Absent]
OneOption(k, v) == [NoOptions EXCEPT ![k] = v]

\* utils.deepMixIn(_config, options) on configurations: every key that
\* options holds is copied.
MixIn(target, source) ==
    [k \in ConfigKeys |-> IF source[k] # Absent THEN source[k] ELSE target[k]]

\* The checks of _configure: "ok", or how the IllegalArgumentError leaves
\* ("callback", "throw").  An option is checked only if its value is truthy.
ConfigureCheck(options, cbType) ==
    IF \/ \E k \in ConfigKeys : isTruthy(options[k]) /\ ~HasType(options[k], k)
       \/ truthy(cbType) /\ ~isFunction(cbType)
    THEN IF isFunction(cbType) THEN "callback" ELSE "throw"
    ELSE "ok"

\* _get(key)
get(key) == connConfig[key]

\* A merge that never resets to the defaults.
MergedOntoPrevious(cfg, options, strict) == MixIn(cfg, options)

\* The configuration after a successful configure.
Merged(cfg, options, strict) ==
    IF strict THEN MixIn(MixIn(cfg, defaults), options) ELSE MixIn(cfg, options)

\* ------------------------------------------------------------------ Connection: pools
PoolIds == 1..(MaxConfigures + 1)
Handles == 1..(MaxPoolMax * (MaxConfigures + 1))
RunIds == 1..MaxRuns
ClientIds == 1..MaxClients
Clients == RunIds \cup ClientIds

\* The number of priority slots generic-pool gives a pool built with option
\* priorityRange.
PoolRange(cfg) ==
    IF cfg["priorityRange"][1] = "number" /\ cfg["priorityRange"][2] >= 1
    THEN cfg["priorityRange"][2] ELSE 1

\* The size generic-pool gives a pool built with option max.
PoolMax(cfg) ==
    IF cfg["max"][1] = "number" /\ cfg["max"][2] >= 1 THEN cfg["max"][2] ELSE 1

\* A pool: its size, the number of handles it counts as its own (created or
\* being created), its available handles, its waiting clients in arrival
\* order, the creations in progress, whether drain() was called on it and has
\* completed, and the cb of the configure call that drains it.
NoPool == [made |-> FALSE, max |-> 0, range |-> 0, count |-> 0, available |-> {}, waiting |-> <<>>,
           creating |-> 0, draining |-> FALSE, drained |-> FALSE, cb |-> "none"]

\* A pool built from the defaults, whatever the configuration.
CreatePoolFromDefaults(cfg) ==
    [NoPool EXCEPT !.made = TRUE, !.max = PoolMax(defaults), !.range = PoolRange(defaults)]

\* createPool(_config)
CreatePool(cfg) == [NoPool EXCEPT !.made = TRUE, !.max = PoolMax(cfg), !.range = PoolRange(cfg)]

\* A Connection.run call, or a direct caller of acquire: where it stands, the
\* pool it asked for a handle, the number of pool replacements before it
\* started, the handle it got, whether it got it within the call itself, the
\* priority slot it queues in, whether it called acquire directly, and the
\* key connection of the options object its caller supplied (0: not set).
NoRun == [pc |-> "idle", pool |-> 0, epoch |-> 0, conn |-> 0, sync |-> FALSE,
          slot |-> 0, direct |-> FALSE, options |-> 0]

\* The record of a run or configure call that has just ended or called back.
NoEnded == [op |-> "none", id |-> 0, how |-> "none", err |-> NoError, nargs |-> 0,
            conn |-> 0, options |-> NoOptions, strict |-> FALSE, cb |-> "none",
            cfgBefore |-> NoOptions, poolBefore |-> 0]

\* The driver threw inside query.run.
DriverThrown == <<"DriverThrown">>

\* The handles that are open.
LiveHandles == (1..opened) \ closed

\* generic-pool's dispense() on pool p of P: the first waiting client gets an
\* available handle, or a handle is created for it while the pool counts
\* fewer than max.  give: <<>> or <<client, handle>>.
Dispense(p, P) ==
    IF P[p].waiting = <<>>
    THEN [pools |-> P, give |-> <<>>]
    ELSE IF P[p].available # {}
    THEN LET h == CHOOSE x \in P[p].available : \A y \in P[p].available : x <= y
         IN  [pools |-> [P EXCEPT ![p].available = @ \ {h}, ![p].waiting = Tail(@)],
              give |-> <<Head(P[p].waiting), h>>]
    ELSE IF P[p].count < P[p].max
    THEN [pools |-> [P EXCEPT ![p].count = @ + 1, ![p].creating = @ + 1], give |-> <<>>]
    ELSE [pools |-> P, give |-> <<>>]

\* The run calls and the handles' holders once dispense has given a handle:
\* the second step of run's waterfall keeps the handle (conn = connection),
\* writes it into the options (options.connection = conn) and sends the query.
Hand(R, give, sync) ==
    IF give = <<>> THEN R
    ELSE [R EXCEPT ![give[1]].pc = "sent", ![give[1]].conn = give[2], ![give[1]].sync = sync,
                   ![give[1]].options = IF R[give[1]].direct THEN 0 ELSE give[2]]
Held(H, give) == IF give = <<>> THEN H ELSE [H EXCEPT ![give[2]] = give[1]]

\* An acquire that hands out an available handle and leaves it available.
PoolAcquireKeepsAvailable(p, P, r) ==
    IF P[p].available # {} /\ P[p].waiting = <<>>
    THEN [pools |-> P, give |-> <<r, CHOOSE x \in P[p].available : TRUE>>]
    ELSE Dispense(p, [P EXCEPT ![p].waiting = Append(@, r)])

\* The slot of the pool's waiting queue that priority pr selects among size
\* slots: a priority outside 0..size-1 goes to the last slot.
Slot(pr, size) == IF pr < 0 \/ pr >= size THEN size - 1 ELSE pr

\* Client r joins waiting queue w in slot s: behind every client of a slot up
\* to s, ahead of every client of a later slot.
Enqueue(w, r, s) ==
    LET ahead == SelectSeq(w, LAMBDA x : runs[x].slot <= s)
        behind == SelectSeq(w, LAMBDA x : runs[x].slot > s)
    IN  ahead \o <<r>> \o behind

\* An acquire that passes no priority on to the pool.
PoolAcquireNoPriority(p, P, r, pr) == Dispense(p, [P EXCEPT ![p].waiting = Enqueue(@, r, 0)])

\* _acquire(cb, priority) for client r: _pool.acquire queues the client by
\* priority and dispenses.
PoolAcquirePriority(p, P, r, pr) ==
    Dispense(p, [P EXCEPT ![p].waiting = Enqueue(@, r, Slot(pr, P[p].range))])

\* _acquire(cb) for client r, as run calls it: no priority, the first slot.
PoolAcquire(p, P, r) == Dispense(p, [P EXCEPT ![p].waiting = Enqueue(@, r, 0)])

\* _release(h): release(h) on pool p of P puts h among the available handles
\* and dispenses.
PoolRelease(p, P, h) ==
    IF h \in P[p].available THEN Dispense(p, P)
    ELSE Dispense(p, [P EXCEPT ![p].available = @ \cup {h}])

\* drain() has nothing left to wait for on this pool.
Drainable(q) == q.waiting = <<>> /\ Cardinality(q.available) = q.count

\* destroyAllNow() on pool p of P.
DestroyAllNow(p, P) ==
    [P EXCEPT ![p].count = @ - Cardinality(P[p].available), ![p].available = {},
              ![p].drained = TRUE]

\* ------------------------------------------------------------------ Connection.run, called directly
\* What a run call did with its callback.
RunEnded(r, how, err, nargs, h) ==
    [NoEnded EXCEPT !.op = "run", !.id = r, !.how = how, !.err = err, !.nargs = nargs,
                    !.conn = h]

\* connection.run(query, options, cb) with a query, object options and a
\* callable cb: the call asks the current pool for a handle and, if one is
\* available, has the driver send the query at once.
Run(r) ==
    /\ runs[r].pc = "idle"
    /\ IF r = 1 THEN TRUE ELSE runs[r - 1].pc # "idle"
    /\ RunArgCheck(TRUE, "object", "function") = "ok"
    /\ LET d == PoolAcquire(connPool, pools, r)
           started == [runs EXCEPT ![r] = [NoRun EXCEPT !.pc = "waiting", !.pool = connPool,
                                                        !.epoch = configures]]
       IN  /\ pools' = d.pools
           /\ runs' = Hand(started, d.give, TRUE)
           /\ holder' = Held(holder, d.give)
    /\ ended' = NoEnded
    /\ UNCHANGED <<connConfig, connPool, opened, closed, configures>>

\* connection.run(query, options, cb) with arguments its checks reject: the
\* IllegalArgumentError is thrown or passed to cb, and the call ends there.
RunRejected(r, hasQuery, optType, cbType) ==
    /\ runs[r].pc = "idle"
    /\ IF r = 1 THEN TRUE ELSE runs[r - 1].pc # "idle"
    /\ RunArgCheck(hasQuery, optType, cbType) # "ok"
    /\ runs' = [runs EXCEPT ![r].pc = "done"]
    /\ ended' = [NoEnded EXCEPT !.op = "rejected", !.id = r, !.err = IllegalArgumentError,
                                !.nargs = 1,
                                !.how = IF RunArgCheck(hasQuery, optType, cbType) = "throw"
                                        THEN "thrown" ELSE "called"]
    /\ UNCHANGED <<connConfig, connPool, pools, opened, closed, holder, configures>>

\* r.connect calls back for a creation pool p started.  ok: the new handle
\* goes to the pool's first waiting client (to the pool itself if nobody
\* waits).  Not ok: that client's run ends with the error, and the pool
\* dispenses again.
Created(p, ok) ==
    /\ pools[p].creating > 0
    /\ LET q == pools[p]
           h == opened + 1
           client == IF q.waiting = <<>> THEN 0 ELSE Head(q.waiting)
           rest == IF q.waiting = <<>> THEN <<>> ELSE Tail(q.waiting)
           P1 == [pools EXCEPT ![p].creating = @ - 1, ![p].waiting = rest]
       IN  IF ok
           THEN /\ opened' = h
                /\ IF client = 0
                   THEN /\ pools' = PoolRelease(p, P1, h).pools
                        /\ UNCHANGED <<runs, holder>>
                   ELSE /\ pools' = P1
                        /\ runs' = Hand(runs, <<client, h>>, FALSE)
                        /\ holder' = Held(holder, <<client, h>>)
                /\ ended' = NoEnded
           ELSE /\ opened' = opened
                /\ LET d == Dispense(p, [P1 EXCEPT ![p].count = @ - 1])
                   IN  /\ pools' = d.pools
                       /\ runs' = IF client = 0 THEN runs
                                  ELSE [runs EXCEPT ![client].pc = "done"]
                       /\ holder' = holder
                /\ ended' = IF client = 0 THEN NoEnded
                            ELSE IF runs[client].direct
                            THEN [NoEnded EXCEPT !.op = "acquire", !.id = client,
                                                 !.how = "called", !.err = ConnectError,
                                                 !.nargs = 1]
                            ELSE RunEnded(client, "called", RunFinal(ConnectError, <<>>).err, 1, 0)
    /\ UNCHANGED <<connConfig, connPool, closed, configures>>

\* QueryDone with a final handler that releases the handle and invokes cb
\* only for a result: a driver error is dropped.
QueryDoneDropsError(r, ok) ==
    /\ runs[r].pc = "sent" /\ ~runs[r].direct
    /\ LET h == runs[r].conn
           d == PoolRelease(connPool, pools, h)
           res == RunFinal(IF ok THEN NoError ELSE DriverError, <<>>)
       IN  /\ pools' = d.pools
           /\ runs' = Hand([runs EXCEPT ![r].pc = "done"], d.give, TRUE)
           /\ holder' = Held([holder EXCEPT ![h] = 0], d.give)
           /\ ended' = RunEnded(r, IF ok THEN "called" ELSE "none", res.err,
                                IF ok THEN 2 ELSE 0, h)
    /\ UNCHANGED <<connConfig, connPool, opened, closed, configures>>

\* The driver calls back for run r, with a result or with an error: the
\* final handler releases the handle to the current pool, then calls cb.
QueryDone(r, ok) ==
    /\ runs[r].pc = "sent" /\ ~runs[r].direct
    /\ LET h == runs[r].conn
           d == PoolRelease(connPool, pools, h)
           res == RunFinal(IF ok THEN NoError ELSE DriverError, <<>>)
       IN  /\ pools' = d.pools
           /\ runs' = Hand([runs EXCEPT ![r].pc = "done"], d.give, TRUE)
           /\ holder' = Held([holder EXCEPT ![h] = 0], d.give)
           /\ ended' = RunEnded(r, "called", res.err, IF ok THEN 2 ELSE 1, h)
    /\ UNCHANGED <<connConfig, connPool, opened, closed, configures>>

\* The driver throws inside query.run(options, next) of run r.  caught: the
\* exception unwinds to run's catch block, which calls cb; this takes the
\* handle to have been handed over within the run call.  Not caught: it
\* leaves through the callback that handed the handle over, and cb is never
\* called.  Neither way releases the handle.
QueryThrow(r, caught) ==
    /\ runs[r].pc = "sent" /\ ~runs[r].direct
    /\ caught => runs[r].sync
    /\ runs' = [runs EXCEPT ![r].pc = "done"]
    /\ ended' = IF caught
                THEN RunEnded(r, "called", UnhandledError(DriverThrown), 1, runs[r].conn)
                ELSE RunEnded(r, "uncaught", DriverThrown, 0, runs[r].conn)
    /\ UNCHANGED <<connConfig, connPool, pools, opened, closed, holder, configures>>

\* The completion callback threw.
CallbackError == <<"CallbackError">>

\* The driver calls back for run r and the cb that the final handler then
\* invokes throws.  inTry: the whole chain ran within the run call itself (the
\* pool handed the handle over at once and the driver answered inside
\* query.run), so the exception unwinds to run's catch block, which invokes cb
\* a second time, with an UnhandledError wrapping cb's own exception.  Not
\* inTry: the exception leaves through the driver's callback.
CallbackThrows(r, ok, inTry) ==
    /\ runs[r].pc = "sent" /\ ~runs[r].direct
    /\ inTry => runs[r].sync
    /\ LET h == runs[r].conn
           d == PoolRelease(connPool, pools, h)
           res == RunFinal(IF ok THEN NoError ELSE DriverError, <<>>)
       IN  /\ pools' = d.pools
           /\ runs' = Hand([runs EXCEPT ![r].pc = "done"], d.give, TRUE)
           /\ holder' = Held([holder EXCEPT ![h] = 0], d.give)
           /\ ended' = IF inTry
                       THEN RunEnded(r, "called twice", UnhandledError(CallbackError), 1, h)
                       ELSE RunEnded(r, "called", res.err, IF ok THEN 2 ELSE 1, h)
    /\ UNCHANGED <<connConfig, connPool, opened, closed, configures>>

\* ------------------------------------------------------------------ Connection.acquire and release, called directly
\* connection.acquire(cb, priority) by client r.
AcquireCall(r, pr) ==
    /\ runs[r].pc = "idle"
    /\ IF r = 1 THEN TRUE ELSE runs[r - 1].pc # "idle"
    /\ LET started == [runs EXCEPT ![r] = [NoRun EXCEPT !.pc = "waiting", !.pool = connPool,
                                                        !.epoch = configures, !.direct = TRUE,
                                                        !.slot = Slot(pr, pools[connPool].range)]]
           d == PoolAcquirePriority(connPool, pools, r, pr)
       IN  /\ pools' = d.pools
           /\ runs' = Hand(started, d.give, TRUE)
           /\ holder' = Held(holder, d.give)
    /\ ended' = NoEnded
    /\ UNCHANGED <<connConfig, connPool, opened, closed, configures>>

\* connection.release(conn) by the client r that acquired it.
ReleaseCall(r) ==
    /\ runs[r].pc = "sent" /\ runs[r].direct
    /\ LET h == runs[r].conn
           d == PoolRelease(connPool, pools, h)
       IN  /\ pools' = d.pools
           /\ runs' = Hand([runs EXCEPT ![r].pc = "done"], d.give, TRUE)
           /\ holder' = Held([holder EXCEPT ![h] = 0], d.give)
    /\ ended' = [NoEnded EXCEPT !.op = "release", !.id = r, !.conn = runs[r].conn]
    /\ UNCHANGED <<connConfig, connPool, opened, closed, configures>>

\* ------------------------------------------------------------------ Connection.configure
\* What a configure call did.
ConfigureEnded(how, err, nargs, options, strict, cbType) ==
    [NoEnded EXCEPT !.op = "configure", !.how = how, !.err = err, !.nargs = nargs,
                    !.options = options, !.strict = strict, !.cb = cbType,
                    !.cfgBefore = connConfig, !.poolBefore = connPool]

\* The drain callback of _configure on pool p of P: destroyAllNow, then cb.
Drained(p, P) ==
    /\ pools' = DestroyAllNow(p, P)
    /\ closed' = closed \cup P[p].available

\* connection.configure(options, strict, cb)
Configure(options, strict, cbType) ==
    /\ configures < MaxConfigures
    /\ LET check == ConfigureCheck(options, cbType)
           new == connPool + 1
           cfg == Merged(connConfig, options, strict)
           P1 == [pools EXCEPT ![new] = CreatePool(cfg), ![connPool].draining = TRUE,
                               ![connPool].cb = cbType]
       IN  IF check # "ok"
           THEN /\ ended' = ConfigureEnded(IF check = "callback" THEN "called" ELSE "thrown",
                                           IllegalArgumentError, 1, options, strict, cbType)
                /\ UNCHANGED <<connConfig, connPool, pools, closed, configures>>
           ELSE /\ connConfig' = cfg
                /\ connPool' = new
                /\ configures' = configures + 1
                /\ IF Drainable(P1[connPool])
                   THEN /\ Drained(connPool, P1)
                        /\ ended' = ConfigureEnded(IF isFunction(cbType) THEN "called"
                                                   ELSE "returned",
                                                   NoError, 0, options, strict, cbType)
                   ELSE /\ pools' = P1
                        /\ closed' = closed
                        /\ ended' = ConfigureEnded("returned", NoError, 0, options, strict,
                                                   cbType)
    /\ UNCHANGED <<opened, holder, runs>>

\* drain() of a replaced pool p finds nothing left to wait for.
DrainCheck(p) ==
    /\ pools[p].draining /\ ~pools[p].drained
    /\ Drainable(pools[p])
    /\ Drained(p, pools)
    /\ ended' = [NoEnded EXCEPT !.op = "drained", !.id = p, !.cb = pools[p].cb,
                                !.how = IF isFunction(pools[p].cb) THEN "called" ELSE "none"]
    /\ UNCHANGED <<connConfig, connPool, opened, holder, runs, configures>>

\* A Connection constructed with no options: _configure(options, true).
ConnInit ==
    /\ connConfig = Merged(NoOptions, NoOptions, TRUE)
    /\ connPool = 1
    /\ pools = [p \in PoolIds |-> IF p = 1 THEN CreatePool(defaults) ELSE NoPool]
    /\ opened = 0
    /\ closed = {}
    /\ holder = [h \in Handles |-> 0]
    /\ runs = [r \in Clients |-> NoRun]
    /\ configures = 0
    /\ ended = NoEnded

\* The instances' side of the state.
model == <<config, engine, pool, attributes, previousAttributes, meta, calls, sets, last>>

\* ------------------------------------------------------------------ specification
\* new Model({name: ...}) and new Model({name: ..., <idAttribute>: pk})
NewInstance(pk) == [EmptyAttrs EXCEPT !["name"] = Str(1), ![idAttribute] = pk]

\* A model whose idAttribute names a timestamp field is taken with timestamps
\* on: with timestamps off save treats that field like any other.
Init ==
    /\ idAttribute \in {"id", "updated"}
    /\ timestamps \in BOOLEAN
    /\ idAttribute = "updated" => timestamps
    /\ softDelete \in BOOLEAN
    /\ max = defaultMax
    /\ \E pk \in {Absent, Null} :
           attributes = [i \in Instances |-> IF i = 1 THEN NewInstance(pk)
                                             ELSE NewInstance(Key(1))]
    /\ previousAttributes = [i \in Instances |-> <<>>]
    /\ meta = [i \in Instances |-> <<>>]
    /\ \E stored \in BOOLEAN :
           table = [k \in RowKeys |-> IF k = 1 /\ stored THEN <<NewInstance(Key(1))>> ELSE <<>>]
    /\ now = 1
    /\ nextKey = 2
    /\ live = {}
    /\ idle = {}
    /\ waiting = <<>>
    /\ calls = [c \in CallIds |-> NoCall]
    /\ sets = 0
    /\ last = NoLast
    /\ ConnInit

\* The steps that are not a caller's: the pool, the engine and the driver.
Progress ==
    \/ \E c \in CallIds : Acquire(c)
    \/ \E c \in CallIds : AcquireFail(c)
    \/ \E c \in CallIds, fail \in BOOLEAN : EngineExec(c, fail)
    \/ \E c \in CallIds : RunCallback(c)
    \/ \E c \in CallIds : DriverFail(c)

\* Callers call instance.save(cb) and instance.destroy(cb), and change
\* attributes in between.
Next ==
    \/ \E c \in CallIds, i \in Instances, t \in ThrowPoints :
          SaveCall(c, i, "function", "absent", "undefined", t)
    \/ \E c \in CallIds, i \in Instances, t \in ThrowPoints :
          DestroyCall(c, i, "function", "absent", "undefined", t)
    \/ \E i \in Instances, v \in Names : Set(i, v)
    \/ Progress

Spec == Init /\ [][Next]_vars

\* Two instances loaded from one stored row of a model with timestamps and
\* soft delete: the row was inserted by an earlier save, so it carries
\* created, updated and deleted: null, and so do the instances' attributes.
LoadedRow ==
    [EmptyAttrs EXCEPT !["id"] = Key(1), !["name"] = Str(1), !["created"] = Time(0),
                       !["updated"] = Time(0), !["deleted"] = Null]

InitSoft ==
    /\ idAttribute = "id" /\ timestamps = TRUE /\ softDelete = TRUE
    /\ max = defaultMax
    /\ attributes = [i \in Instances |-> LoadedRow]
    /\ previousAttributes = [i \in Instances |-> <<>>]
    /\ meta = [i \in Instances |-> <<>>]
    /\ table = [k \in RowKeys |-> IF k = 1 THEN <<LoadedRow>> ELSE <<>>]
    /\ now = 1 /\ nextKey = 2
    /\ live = {} /\ idle = {} /\ waiting = <<>>
    /\ calls = [c \in CallIds |-> NoCall]
    /\ sets = 0
    /\ last = NoLast
    /\ ConnInit

SpecSoft == InitSoft /\ [][Next]_vars

\* Callers call save, destroy and Connection.run with arguments of every
\* type: the first MaxArgCalls calls of a behaviour.
NextArgs ==
    \/ \E c \in 1 .. MaxArgCalls, i \in Instances, o \in OptionTypes, x \in ContextTypes,
          f \in CbTypes, t \in ThrowPoints : SaveCall(c, i, o, x, f, t)
    \/ \E c \in 1 .. MaxArgCalls, i \in Instances, o \in OptionTypes, x \in ContextTypes,
          f \in CbTypes, t \in ThrowPoints : DestroyCall(c, i, o, x, f, t)
    \/ \E r \in 1 .. MaxArgCalls, q \in BOOLEAN, o \in OptionTypes, f \in CbTypes :
          RunRejected(r, q, o, f) /\ UNCHANGED model
    \/ Progress

SpecArgs == Init /\ [][NextArgs]_vars

\* The Connection on its own: run and configure calls made directly on it.
\* No model instance is in use.
InitConn ==
    /\ idAttribute = "id" /\ timestamps = FALSE /\ softDelete = FALSE
    /\ max = defaultMax
    /\ attributes = [i \in Instances |-> NewInstance(Absent)]
    /\ previousAttributes = [i \in Instances |-> <<>>]
    /\ meta = [i \in Instances |-> <<>>]
    /\ table = [k \in RowKeys |-> <<>>]
    /\ now = 1 /\ nextKey = 2
    /\ live = {} /\ idle = {} /\ waiting = <<>>
    /\ calls = [c \in CallIds |-> NoCall]
    /\ sets = 0
    /\ last = NoLast
    /\ ConnInit

NextConn ==
    \/ \E r \in RunIds : Run(r) /\ UNCHANGED model
    \/ \E p \in PoolIds, ok \in BOOLEAN : Created(p, ok) /\ UNCHANGED model
    \/ \E r \in RunIds, ok \in BOOLEAN : QueryDone(r, ok) /\ UNCHANGED model
    \/ \E r \in RunIds, caught \in BOOLEAN : QueryThrow(r, caught) /\ UNCHANGED model
    \/ \E n \in 1..MaxPoolMax, strict \in BOOLEAN, cbType \in CbTypes :
           Configure(OneOption("max", Num(n)), strict, cbType) /\ UNCHANGED model
    \/ \E p \in PoolIds : DrainCheck(p) /\ UNCHANGED model

SpecConn == InitConn /\ [][NextConn]_vars

\* The Connection on its own with every query completing through the
\* driver's callback, and every step that can be taken eventually taken: a
\* pending r.connect calls back, a sent query calls back, a drain that has
\* nothing left to wait for completes.
NextDrain ==
    \/ \E r \in RunIds : Run(r) /\ UNCHANGED model
    \/ \E p \in PoolIds, ok \in BOOLEAN : Created(p, ok) /\ UNCHANGED model
    \/ \E r \in RunIds, ok \in BOOLEAN : QueryDone(r, ok) /\ UNCHANGED model
    \/ \E n \in 1..MaxPoolMax, strict \in BOOLEAN, cbType \in CbTypes :
           Configure(OneOption("max", Num(n)), strict, cbType) /\ UNCHANGED model
    \/ \E p \in PoolIds : DrainCheck(p) /\ UNCHANGED model

SpecDrain == InitConn /\ [][NextDrain]_vars /\ WF_vars(NextDrain)

\* The Connection on its own, as SpecDrain takes it, with every configure
\* call made as configure({max: n}, cb).
NextLive ==
    \/ \E r \in RunIds : Run(r) /\ UNCHANGED model
    \/ \E p \in PoolIds, ok \in BOOLEAN : Created(p, ok) /\ UNCHANGED model
    \/ \E r \in RunIds, ok \in BOOLEAN : QueryDone(r, ok) /\ UNCHANGED model
    \/ \E n \in 1..MaxPoolMax :
           Configure(OneOption("max", Num(n)), FALSE, "function") /\ UNCHANGED model
    \/ \E p \in PoolIds : DrainCheck(p) /\ UNCHANGED model

SpecLive == InitConn /\ [][NextLive]_vars /\ WF_vars(NextLive)

\* The Connection on its own with completion callbacks that may throw; the
\* driver answers every query through its callback.
NextOnce ==
    \/ \E r \in RunIds : Run(r) /\ UNCHANGED model
    \/ \E p \in PoolIds, ok \in BOOLEAN : Created(p, ok) /\ UNCHANGED model
    \/ \E r \in RunIds, ok \in BOOLEAN : QueryDone(r, ok) /\ UNCHANGED model
    \/ \E r \in RunIds, ok \in BOOLEAN, inTry \in BOOLEAN :
           CallbackThrows(r, ok, inTry) /\ UNCHANGED model
    \/ \E n \in 1..MaxPoolMax, strict \in BOOLEAN, cbType \in CbTypes :
           Configure(OneOption("max", Num(n)), strict, cbType) /\ UNCHANGED model
    \/ \E p \in PoolIds : DrainCheck(p) /\ UNCHANGED model

SpecOnce == InitConn /\ [][NextOnce]_vars

\* One configure call, with one option of any key and any value, on a
\* Connection constructed with {max: n}.
OptionValues == {Num(0), Num(2), Text(0), Text(1), Bool(0), Bool(1), Fn, Obj}

InitConfigure ==
    /\ idAttribute = "id" /\ timestamps = FALSE /\ softDelete = FALSE
    /\ max = defaultMax
    /\ attributes = [i \in Instances |-> NewInstance(Absent)]
    /\ previousAttributes = [i \in Instances |-> <<>>]
    /\ meta = [i \in Instances |-> <<>>]
    /\ table = [k \in RowKeys |-> <<>>]
    /\ now = 1 /\ nextKey = 2
    /\ live = {} /\ idle = {} /\ waiting = <<>>
    /\ calls = [c \in CallIds |-> NoCall]
    /\ sets = 0
    /\ last = NoLast
    /\ \E n \in 1..MaxPoolMax :
          /\ connConfig = Merged(NoOptions, OneOption("max", Num(n)), TRUE)
          /\ pools = [p \in PoolIds |-> IF p = 1 THEN CreatePool(connConfig) ELSE NoPool]
    /\ connPool = 1
    /\ opened = 0
    /\ closed = {}
    /\ holder = [h \in Handles |-> 0]
    /\ runs = [r \in Clients |-> NoRun]
    /\ configures = 0
    /\ ended = NoEnded

NextConfigure ==
    /\ ended = NoEnded
    /\ \E k \in ConfigKeys, v \in OptionValues, strict \in BOOLEAN, cbType \in CbTypes :
           Configure(OneOption(k, v), strict, cbType)
    /\ UNCHANGED model

SpecConfigure == InitConfigure /\ [][NextConfigure]_vars

\* Callers of acquire (with a priority the pool accepts) and of run queueing
\* on the pool of a Connection constructed with {priorityRange: n}.
InitQueue ==
    /\ idAttribute = "id" /\ timestamps = FALSE /\ softDelete = FALSE
    /\ max = defaultMax
    /\ attributes = [i \in Instances |-> NewInstance(Absent)]
    /\ previousAttributes = [i \in Instances |-> <<>>]
    /\ meta = [i \in Instances |-> <<>>]
    /\ table = [k \in RowKeys |-> <<>>]
    /\ now = 1 /\ nextKey = 2
    /\ live = {} /\ idle = {} /\ waiting = <<>>
    /\ calls = [c \in CallIds |-> NoCall]
    /\ sets = 0
    /\ last = NoLast
    /\ \E n \in 1..MaxPriorityRange :
          /\ connConfig = Merged(NoOptions, OneOption("priorityRange", Num(n)), TRUE)
          /\ pools = [p \in PoolIds |-> IF p = 1 THEN CreatePool(connConfig) ELSE NoPool]
    /\ connPool = 1
    /\ opened = 0
    /\ closed = {}
    /\ holder = [h \in Handles |-> 0]
    /\ runs = [r \in Clients |-> NoRun]
    /\ configures = 0
    /\ ended = NoEnded

NextQueue ==
    \/ \E r \in ClientIds : Run(r) /\ UNCHANGED model
    \/ \E r \in ClientIds, pr \in 0..(MaxPriorityRange - 1) :
           pr < pools[connPool].range /\ AcquireCall(r, pr) /\ UNCHANGED model
    \/ \E p \in PoolIds, ok \in BOOLEAN : Created(p, ok) /\ UNCHANGED model
    \/ \E r \in ClientIds, ok \in BOOLEAN : QueryDone(r, ok) /\ UNCHANGED model
    \/ \E r \in ClientIds : ReleaseCall(r) /\ UNCHANGED model

SpecQueue == InitQueue /\ [][NextQueue]_vars

\* ------------------------------------------------------------------ claims
\* The call that has just ended, and what became of it.
EndedSave == last.call.op = "save"
EndedDestroy == last.call.op = "destroy"
Passed ==
    /\ last.call.op # "none"
    /\ ArgCheck(last.call.options, last.call.context, last.call.cb) = "ok"
Succeeded == last.out.how = "called" /\ last.out.err = NoError
IsTime(v) == v[1] = "time"
Has(row, k) == row # <<>> /\ row[1][k] # Absent
InFlight(c) == calls[c].pc \in {"waiting", "sent", "executed"}

\* C1: every save call that passes argument validation issues exactly one
\* write: an insert of the full attribute mapping if the instance was new when
\* save was called (primary key absent or null), and an update addressed by
\* the instance's primary-key value otherwise. Stated of every save that is
\* waiting for its result and of every save that has just called back with a
\* result; a save whose query construction threw is left aside.
C1_OneWriteByNewness ==
    /\ \A c \in CallIds :
           calls[c].op = "save" /\ InFlight(c) =>
               IF calls[c].wasNew
               THEN /\ calls[c].q.kind = "insert"
                    /\ \A k \in {"id", "name"} : calls[c].q.doc[k] = calls[c].pre[k]
               ELSE /\ calls[c].q.kind = "update"
                    /\ calls[c].q.key = calls[c].pre[idAttribute]
    /\ EndedSave /\ Passed /\ last.call.q # NoQuery =>
           /\ last.issued = 1
           /\ last.call.q.kind = IF last.call.wasNew THEN "insert" ELSE "update"

\* C2: after a successful save of a new instance, isNew() is false, the
\* attributes hold a primary key generated by the engine, every attribute the
\* caller had set keeps its value, and the instance's meta reports one
\* insertion.
C2_NewInstanceSaved ==
    EndedSave /\ last.call.wasNew /\ Succeeded =>
        LET i == last.call.inst
        IN  /\ ~isNew(attributes[i])
            /\ attributes[i][idAttribute][1] = "key"
            /\ \A k \in {"id", "name"} \ {idAttribute} :
                   last.call.pre[k] # Absent => attributes[i][k] = last.call.pre[k]
            /\ meta[i] # <<>>
            /\ IF meta[i] = <<>> THEN FALSE ELSE meta[i][1].inserted = 1

\* C3: with timestamps enabled, a successful save of a new instance leaves
\* created and updated set to equal times and deleted set to null; a
\* successful save of an instance that is persisted and carries both stamps
\* advances updated and leaves created as it was.
C3_Timestamps ==
    timestamps /\ EndedSave /\ Succeeded =>
        IF last.call.wasNew
        THEN /\ IsTime(last.post["created"])
             /\ last.post["created"] = last.post["updated"]
             /\ last.post["deleted"] = Null
        ELSE IsTime(last.call.pre["created"]) /\ IsTime(last.call.pre["updated"]) =>
                 /\ last.post["created"] = last.call.pre["created"]
                 /\ IsTime(last.post["updated"])
                 /\ last.post["updated"][2] > last.call.pre["updated"][2]

\* C4: after every successful save the instance's meta equals the raw write
\* result the engine returned for that save, and the same object is the third
\* argument of the callback.
C4_MetaIsWriteResult ==
    EndedSave /\ Succeeded =>
        /\ meta[last.call.inst] = last.call.cursor
        /\ last.out.nargs = 3
        /\ last.out.meta = last.call.cursor

\* C5 as stated: after a successful save every key of new_val has the returned
\* value in the attributes, and every other key keeps the value it had when
\* the write was issued.
C5_MergeSinceIssue ==
    EndedSave /\ Succeeded =>
        \A k \in Keys :
            IF Has(last.call.cursor[1].new_val, k)
            THEN last.post[k] = last.call.cursor[1].new_val[1][k]
            ELSE last.post[k] = last.call.q.doc[k]

\* C5, amended: after a successful save every key of new_val has the returned
\* value in the attributes, and every other key keeps the value it had right
\* before the result was merged (which a setSync or another call may have
\* changed since the write was issued).
C5_MergeIntoCurrent ==
    EndedSave /\ Succeeded =>
        /\ attributes[last.call.inst] = last.post
        /\ \A k \in Keys :
               IF Has(last.call.cursor[1].new_val, k)
               THEN last.post[k] = last.call.cursor[1].new_val[1][k]
               ELSE last.post[k] = last.before[k]

\* A successful save whose result had no new_val, made while the caller
\* changed an attribute: the changed value is kept.
C5_Witness ==
    /\ EndedSave /\ Succeeded
    /\ last.call.cursor[1].new_val = <<>>
    /\ last.post["name"] # last.call.q.doc["name"]
    /\ last.post["name"] = last.before["name"]

\* C6: whenever a save fails after argument validation, the callback gets
\* exactly one argument, an UnhandledError whose cause is the original error.
C6_ErrorWrappedOnce ==
    EndedSave /\ Passed /\ ~Succeeded =>
        /\ last.out.how = "called"
        /\ last.out.nargs = 1
        /\ Len(last.out.err) = 2
        /\ last.out.err[1] = "UnhandledError"
        /\ last.out.err[2] # "UnhandledError"

C8_ReceiverAlways ==
    EndedSave /\ last.out.how = "called" =>
        last.out.recv = IF last.call.context # "absent" THEN "context" ELSE "instance"

\* C8, amended: when save calls back after argument validation (success or
\* downstream failure) the receiver is options.context if one was supplied
\* and the instance otherwise; an argument error is passed to the callback
\* by a plain call, with no receiver.
C8_ReceiverAfterValidation ==
    EndedSave /\ last.out.how = "called" =>
        last.out.recv = IF ~Passed THEN "unbound"
                        ELSE IF last.call.context # "absent" THEN "context"
                        ELSE "instance"

\* A save with options.context supplied succeeds and calls back on the context.
C8_Witness ==
    /\ EndedSave /\ Passed /\ Succeeded
    /\ last.call.context = "object" /\ last.out.recv = "context"

\* C9: destroy on a new instance succeeds without acquiring a handle or
\* issuing a write, and leaves the instance's attributes unchanged: no such
\* call ever waits for the pool or the engine, and it ends where it started.
C9_DestroyNewIsNoOp ==
    /\ \A c \in CallIds : calls[c].op = "destroy" /\ InFlight(c) => ~calls[c].wasNew
    /\ EndedDestroy /\ last.call.wasNew /\ Passed =>
           /\ Succeeded
           /\ last.issued = 0 /\ last.call.q = NoQuery /\ last.call.conn = 0
           /\ last.post = last.call.pre
           /\ attributes[last.call.inst] = last.call.pre

\* destroy(cb) on a new instance has just called back.
C9_Witness ==
    /\ EndedDestroy /\ last.call.wasNew /\ Passed /\ Succeeded
    /\ last.issued = 0

\* C10 as stated: after a successful destroy of a persisted instance with
\* softDelete disabled the attributes are the empty mapping and
\* previousAttributes holds the pre-destroy attributes.
C10_DestroyClears ==
    EndedDestroy /\ ~last.call.wasNew /\ Succeeded /\ ~softDelete =>
        /\ attributes[last.call.inst] = EmptyAttrs
        /\ previousAttributes[last.call.inst] = <<last.call.pre>>

\* C10, amended: after a successful destroy of a persisted instance with
\* softDelete disabled the attributes are what they were less the primary
\* key, and previousAttributes holds the old row the engine returned (null
\* when the engine found no row).
C10_DestroyRemovesKey ==
    EndedDestroy /\ ~last.call.wasNew /\ Succeeded /\ ~softDelete =>
        /\ last.post = [last.before EXCEPT ![idAttribute] = Absent]
        /\ attributes[last.call.inst] = last.post
        /\ previousAttributes[last.call.inst] = last.call.cursor[1].old_val

\* A stored instance has just been destroyed: its name is still there, its
\* key is not, and previousAttributes holds the deleted row.
C10_Witness ==
    /\ EndedDestroy /\ ~last.call.wasNew /\ Succeeded /\ ~softDelete
    /\ last.call.cursor[1].deleted = 1
    /\ last.post["name"] # Absent /\ last.post[idAttribute] = Absent
    /\ previousAttributes[last.call.inst] # <<>>

\* C11: after a successful physical destroy of a persisted instance the
\* attributes are what they were with only the primary-key field removed
\* (every other field is retained), and meta is the raw result the engine
\* returned.
C11_PhysicalDestroyResult ==
    EndedDestroy /\ ~last.call.wasNew /\ Succeeded /\ ~softDelete =>
        /\ last.post[idAttribute] = Absent
        /\ \A k \in Keys \ {idAttribute} : last.post[k] = last.before[k]
        /\ attributes[last.call.inst] = last.post
        /\ meta[last.call.inst] = last.call.cursor
        /\ last.call.q.kind = "delete"

\* A stored instance has just been physically destroyed; meta holds the
\* result, which reports one deleted row.
C11_Witness ==
    /\ EndedDestroy /\ ~last.call.wasNew /\ Succeeded /\ ~softDelete
    /\ meta[last.call.inst] # <<>>
    /\ meta[last.call.inst] = last.call.cursor
    /\ last.call.cursor[1].deleted = 1
    /\ last.post["name"] = last.call.pre["name"] /\ last.post["name"] # Absent

\* The write of a soft destroy in progress: an update addressed by the
\* primary key that sets deleted to the server time, updated if and only if
\* timestamps is on, and nothing else.
SoftDestroyWrite(c) ==
    /\ calls[c].q.kind = "update"
    /\ calls[c].q.key = calls[c].pre[idAttribute]
    /\ calls[c].q.doc["deleted"] = NowTerm
    /\ (calls[c].q.doc["updated"] = NowTerm) <=> timestamps
    /\ \A k \in Keys \ {"deleted", "updated"} : calls[c].q.doc[k] = Absent

\* What that write did to the row it found: deleted is a time, updated is a
\* time if timestamps is on and untouched if not, every other field is
\* untouched.
SoftDestroyRow(c) ==
    LET cursor == calls[c].cursor[1]
    IN  cursor.errors = 0 /\ cursor.old_val # <<>> =>
            /\ cursor.new_val # <<>>
            /\ IsTime(cursor.new_val[1]["deleted"])
            /\ IF timestamps THEN IsTime(cursor.new_val[1]["updated"])
               ELSE cursor.new_val[1]["updated"] = cursor.old_val[1]["updated"]
            /\ \A k \in Keys \ {"deleted", "updated"} :
                   cursor.new_val[1][k] = cursor.old_val[1][k]
            /\ RowAt(table, calls[c].q.key) # <<>>

\* C12 as stated: with softDelete on, destroy of a persisted instance never
\* issues a delete; it issues an update by primary key that sets deleted to a
\* non-null time, sets updated if and only if timestamps is on, and leaves
\* every other field of the row and of the attributes unchanged.
C12_SoftDestroyKeepsAttributes ==
    /\ \A c \in CallIds :
           calls[c].op = "destroy" /\ InFlight(c) /\ softDelete =>
               /\ SoftDestroyWrite(c)
               /\ calls[c].pc = "executed" => SoftDestroyRow(c)
    /\ EndedDestroy /\ ~last.call.wasNew /\ Succeeded /\ softDelete =>
           \A k \in Keys \ {"deleted", "updated"} : last.post[k] = last.before[k]

\* C12, amended: the write is as stated and leaves every other field of the
\* row unchanged; the attributes afterwards are the attributes with the
\* returned row (new_val) merged in, so a field the caller had changed without
\* saving takes the stored value again.
C12_SoftDestroyMergesRow ==
    /\ \A c \in CallIds :
           calls[c].op = "destroy" /\ InFlight(c) /\ softDelete =>
               /\ SoftDestroyWrite(c)
               /\ calls[c].pc = "executed" => SoftDestroyRow(c)
    /\ EndedDestroy /\ ~last.call.wasNew /\ Succeeded /\ softDelete =>
           /\ last.post = deepMixIn(last.before, last.call.cursor[1].new_val)
           /\ attributes[last.call.inst] = last.post
           /\ last.call.q.kind = "update"

\* A soft destroy with timestamps on has marked a stored row, and the
\* attributes took deleted and updated from it.
C12_Witness ==
    /\ EndedDestroy /\ ~last.call.wasNew /\ Succeeded /\ softDelete /\ timestamps
    /\ last.call.cursor[1].replaced = 1
    /\ IsTime(last.post["deleted"]) /\ IsTime(last.post["updated"])
    /\ last.post["name"] = last.before["name"]

C14_PreviousIsOldRow ==
    EndedDestroy /\ ~last.call.wasNew /\ Succeeded /\ last.call.cursor[1].old_val # <<>> =>
        /\ previousAttributes[last.call.inst] # <<>>
        /\ \A k \in Keys :
               last.call.cursor[1].old_val[1][k] # Absent =>
                   previousAttributes[last.call.inst][1][k] = last.call.cursor[1].old_val[1][k]

\* previousAttributes holds a field of the old row that the attributes did
\* not hold when destroy was called.
C14_Witness ==
    /\ EndedDestroy /\ ~last.call.wasNew /\ Succeeded
    /\ last.call.cursor[1].old_val # <<>>
    /\ \E k \in Keys :
           /\ last.call.pre[k] = Absent
           /\ previousAttributes[last.call.inst][1][k] # Absent

\* ---- Connection.run and Connection.configure, called directly (SpecConn)
\* A run call has just ended: its callback was invoked, or the driver's
\* exception ended it.
EndedRun == ended.op = "run"

\* C15: when a run that acquired a handle ends, its callback invoked after a
\* success or after a failure, the handle has been released: it is no longer
\* checked out to that run.
C15_ReleasedBeforeCallback ==
    EndedRun /\ ended.conn # 0 => holder[ended.conn] # ended.id

\* C16: every run with a query, object options and a callable callback ends
\* by invoking the callback, with (null, result) or with a single
\* UnhandledError wrapping the cause, also when the driver threw.
C16_CallbackAlways ==
    EndedRun =>
        /\ ended.how = "called"
        /\ \/ ended.err = NoError /\ ended.nargs = 2
           \/ /\ ended.nargs = 1
              /\ Len(ended.err) = 2
              /\ ended.err[1] = "UnhandledError"
              /\ ended.err[2] # "UnhandledError"

\* C17: the number of live handles created through the Connection never
\* exceeds the max it is currently configured with.
C17_AtMostMaxHandles == Cardinality(LiveHandles) <= PoolMax(connConfig)

\* The run calls that hold a handle.
Sent == {r \in RunIds : runs[r].pc = "sent"}

\* C18: a handle is checked out to at most one caller: two runs that hold a
\* handle hold different ones, and a handle a run holds is open and is not
\* among any pool's available handles.
C18_ExclusiveHandles ==
    /\ \A r1 \in Sent, r2 \in Sent : runs[r1].conn = runs[r2].conn => r1 = r2
    /\ \A r \in Sent :
          /\ runs[r].conn \in LiveHandles
          /\ holder[runs[r].conn] = r
          /\ \A p \in PoolIds : runs[r].conn \notin pools[p].available

\* A handle released by one run was handed on to a run that waited for it.
C18_Witness ==
    /\ EndedRun /\ ended.how = "called" /\ ended.conn # 0
    /\ \E r \in Sent : r # ended.id /\ runs[r].conn = ended.conn

\* A configure call has just returned with the configuration accepted.
EndedConfigure == ended.op = "configure"
Accepted == EndedConfigure /\ ended.err = NoError

\* C20: when an accepted configure call returns, the current pool is a new
\* one built from the merged configuration, whether or not the previous pool
\* has drained; a run started after it waits on, and is served by, the pool
\* that was current when it started.
C20_SwapAtOnce ==
    /\ Accepted =>
          /\ connPool = ended.poolBefore + 1
          /\ connConfig = Merged(ended.cfgBefore, ended.options, ended.strict)
          /\ pools[connPool].made
          /\ pools[connPool].max = PoolMax(connConfig)
          /\ ~pools[connPool].draining
    /\ \A r \in RunIds :
          /\ runs[r].pc # "idle" => runs[r].pool = runs[r].epoch + 1
          /\ runs[r].pc = "waiting" =>
                \E i \in 1..Len(pools[runs[r].pool].waiting) :
                    pools[runs[r].pool].waiting[i] = r

\* A run started after a reconfiguration to a larger pool holds a handle
\* while a run started before it still holds a handle of the previous pool,
\* which has not drained.
C20_Witness ==
    \E r1 \in Sent, r2 \in Sent :
        /\ runs[r1].epoch = 0 /\ runs[r2].epoch = 1
        /\ runs[r2].pool = connPool
        /\ pools[connPool].max > PoolMax(defaults)
        /\ pools[runs[r1].pool].draining /\ ~pools[runs[r1].pool].drained

\* ---- Connection.configure with options of every type (SpecConfigure)
\* C19: a configure call given a value of the wrong type for a recognized
\* key, truthy or falsy, fails with IllegalArgumentError, through the callback
\* if one is supplied and by throwing otherwise, and leaves the stored
\* configuration and the current pool as they were.
C19_WrongTypeRejected ==
    EndedConfigure /\ (\E k \in ConfigKeys : ended.options[k] # Absent
                                              /\ ~HasType(ended.options[k], k)) =>
        /\ ended.err = IllegalArgumentError
        /\ ended.how = IF isFunction(ended.cb) THEN "called" ELSE "thrown"
        /\ connConfig = ended.cfgBefore
        /\ connPool = ended.poolBefore

\* ---- lifecycle
\* The lifecycle steps a save call has run by the time it calls back, in
\* order: save calls none of the instance's hook methods, its only step is
\* the write it hands to Connection.run.
StepsRun(issued) == IF issued > 0 THEN <<"save">> ELSE <<>>

\* The documented steps of a save.
StepsOfSave(wasNew) ==
    IF wasNew
    THEN <<"beforeValidate", "validate", "afterValidate", "beforeCreate", "save", "afterCreate">>
    ELSE <<"beforeValidate", "validate", "afterValidate", "beforeUpdate", "save", "afterUpdate">>

\* C21: a save that succeeds has run its lifecycle steps in the documented
\* order, each exactly once: beforeValidate, validate, afterValidate, then
\* beforeCreate, the write, afterCreate for a new instance, or beforeUpdate,
\* the write, afterUpdate for a persisted one.
C21_LifecycleOrder ==
    EndedSave /\ Passed /\ Succeeded => StepsRun(last.issued) = StepsOfSave(last.call.wasNew)

\* C22: a successful save of a persisted instance whose attribute differs
\* from the stored row issued an update, leaves the primary key as it was and
\* isNew() false, leaves the changed attribute at its new value, and the
\* instance's meta reports one replacement.
C22_UpdateOfChanged ==
    /\ EndedSave /\ Succeeded /\ ~last.call.wasNew
    /\ last.call.cursor # <<>>
    /\ Has(last.call.cursor[1].old_val, "name")
    /\ last.call.cursor[1].old_val[1]["name"] # last.call.pre["name"]
    => LET i == last.call.inst
       IN  /\ last.call.q.kind = "update"
           /\ last.post[idAttribute] = last.call.pre[idAttribute]
           /\ ~isNew(last.post)
           /\ last.post["name"] = last.call.pre["name"]
           /\ meta[i] # <<>>
           /\ IF meta[i] = <<>> THEN FALSE ELSE meta[i][1].replaced = 1

\* C23: after an accepted configure(options, strict), get(key) is, for every
\* recognized key, the value options gives if it gives one; otherwise the
\* default when strict is true, and the previously configured value when
\* strict is false or omitted.
C23_StrictResets ==
    Accepted =>
        \A k \in ConfigKeys :
            get(k) = IF ended.options[k] # Absent THEN ended.options[k]
                     ELSE IF ended.strict THEN defaults[k]
                     ELSE ended.cfgBefore[k]

\* A strict configure that does not mention max, on a Connection whose max
\* was not the default, has reset max.
C23_Witness ==
    /\ Accepted /\ ended.strict
    /\ ended.options["max"] = Absent
    /\ ended.cfgBefore["max"] # defaults["max"]
    /\ get("max") = defaults["max"]

\* ---- the waiting queue (SpecQueue)
\* Client r is given a handle it was waiting for.
Served(r) == runs[r].pc = "waiting" /\ runs'[r].pc = "sent"

\* C24: a waiting caller is given a handle only when no other caller waiting
\* on the pool has a lower numeric priority, or the same priority and an
\* earlier arrival; callers of run all have the same priority.  Clients are
\* numbered in order of arrival, and slot is the priority of a caller whose
\* priority the pool accepts.
C24_PriorityThenArrival ==
    [][\A r \in Clients :
           Served(r) =>
               \A x \in Clients \ {r} :
                   runs[x].pc = "waiting" /\ runs[x].pool = runs[r].pool =>
                       \/ runs[x].slot > runs[r].slot
                       \/ runs[x].slot = runs[r].slot /\ x > r]_vars

\* A caller holds a handle it had to wait for while a caller that arrived
\* before it, with a higher numeric priority, is still waiting.
C24_Witness ==
    \E r \in Clients, x \in Clients :
        /\ runs[r].pc = "sent" /\ ~runs[r].sync
        /\ runs[x].pc = "waiting" /\ runs[x].pool = runs[r].pool
        /\ x < r /\ runs[x].slot > runs[r].slot

\* ---- frame
\* C25: a step of a save or destroy changes the attributes,
\* previousAttributes and meta of no instance but its own: whenever these
\* change for an instance, the step is the start or the end of a call on
\* that instance, or the caller's own set.
C25_OnlyOwnInstance ==
    [][\A j \in Instances :
           \/ /\ attributes'[j] = attributes[j]
              /\ previousAttributes'[j] = previousAttributes[j]
              /\ meta'[j] = meta[j]
           \/ sets' # sets
           \/ last'.call.inst = j
           \/ \E c \in CallIds : calls[c].pc = "idle" /\ calls'[c].inst = j]_vars

\* A save or destroy has just changed its instance's attributes while a call
\* on the other instance is in flight.
C25_Witness ==
    /\ last.call.op \in {"save", "destroy"} /\ Succeeded
    /\ last.post # last.before
    /\ \E c \in CallIds : InFlight(c) /\ calls[c].inst # last.call.inst

\* ---- argument errors (SpecArgs)
\* Call c ends in this step by reporting an IllegalArgumentError.
SaveRejects(c) ==
    /\ calls[c].pc = "idle" /\ calls'[c].pc = "done"
    /\ last'.out.err = IllegalArgumentError
RunRejects(r) ==
    /\ runs[r].pc = "idle" /\ runs'[r].pc = "done"
    /\ ended'.op = "rejected" /\ ended'.id = r

\* C26: a step in which save, destroy or Connection.run reports an
\* IllegalArgumentError, thrown or through the callback, acquires no handle,
\* builds and executes no query, and leaves the attributes and the meta of
\* every instance as they were.
C26_RejectedBeforeAnyWork ==
    [][(\E c \in CallIds : SaveRejects(c)) \/ (\E r \in Clients : RunRejects(r)) =>
           /\ attributes' = attributes /\ meta' = meta
           /\ previousAttributes' = previousAttributes
           /\ table' = table
           /\ live' = live /\ idle' = idle /\ waiting' = waiting
           /\ pools' = pools /\ holder' = holder /\ opened' = opened
           /\ (\E c \in CallIds : SaveRejects(c)) =>
                  last'.issued = 0 /\ last'.call.q = NoQuery /\ last'.call.conn = 0]_vars

\* With timestamps enabled, a save was rejected through its callback and a
\* Connection.run call was rejected by throwing.
C26_Witness ==
    /\ timestamps
    /\ EndedSave /\ last.out.err = IllegalArgumentError /\ last.out.how = "called"
    /\ ended.op = "rejected" /\ ended.how = "thrown"

\* ---- failures
\* The ended call's write result reached save: the engine ran the write and
\* the driver delivered its result.
ResultReturned ==
    /\ last.call.cursor # <<>>
    /\ last.out.err # UnhandledError(RunFinal(DriverError, <<>>).err)

\* C27: when the write result returned to save reports errors, the callback
\* receives a single error built from the result's first_error, the
\* attributes are what they were before the result arrived, and the
\* instance's meta is not the result.
C27_WriteErrorFails ==
    EndedSave /\ ResultReturned /\ last.call.cursor[1].errors # 0 =>
        /\ last.out.how = "called"
        /\ last.out.nargs = 1
        /\ last.out.err = UnhandledError(<<last.call.cursor[1].first_error>>)
        /\ last.post = last.before
        /\ attributes[last.call.inst] = last.before
        /\ meta[last.call.inst] # last.call.cursor

\* A save whose write the engine rejected has called back.
C27_Witness ==
    /\ EndedSave /\ ResultReturned /\ last.call.cursor[1].errors # 0
    /\ last.out.err = UnhandledError(FirstError)

\* C28: when a save with timestamps enabled fails after argument validation,
\* the failure rolls nothing back, so the stamps written in preparation stay
\* in the attributes, and neither the preparation nor the failure changes the
\* primary key or isNew().  pre: the attributes when save was called; before
\* and post: the attributes around the step in which the call ended.
C28_StampsStayKeyUnchanged ==
    timestamps /\ EndedSave /\ Passed /\ ~Succeeded =>
        LET stamped == Stamp(last.call.pre)
        IN  /\ IF last.issued = 0
               THEN last.post \in {last.call.pre, stamped}
               ELSE last.post = last.before
            /\ last.issued = 1 /\ last.before = stamped =>
                   /\ last.post["updated"] = NowTerm
                   /\ last.call.wasNew =>
                          last.post["created"] = NowTerm /\ last.post["deleted"] = Null
            /\ stamped[idAttribute] = last.call.pre[idAttribute]
            /\ isNew(stamped) = last.call.wasNew
            /\ last.post[idAttribute] = last.before[idAttribute]
            /\ isNew(last.post) = isNew(last.before)

\* C29: no run call that has ended, whatever its outcome (a result, an error
\* from the driver's callback, an exception thrown by the driver), still has
\* the handle it acquired checked out.
C29_NoRunKeepsHandle ==
    \A r \in Clients :
        runs[r].pc = "done" /\ ~runs[r].direct /\ runs[r].conn # 0 =>
            holder[runs[r].conn] # r

\* ---- draining (SpecDrain)
\* C30: a pool replaced by a reconfiguration eventually finishes draining:
\* its handles are destroyed and the drain callback, which calls the
\* configure callback, has run.
C30_OldPoolDrains ==
    \A p \in PoolIds : pools[p].draining ~> pools[p].drained

\* Run r has invoked its completion callback.
CalledBack(r) == ended.op = "run" /\ ended.id = r /\ ended.how = "called"

Invocations ==
    IF ended.how = "called" THEN 1 ELSE IF ended.how = "called twice" THEN 2 ELSE 0

\* C32: a run call made with a callable callback invokes it exactly once,
\* also when the pool and the driver call back within the run call and when
\* the callback itself throws.
C32_CalledExactlyOnce == EndedRun => Invocations = 1

\* C33: the handle a run call has released went back to the pool the run
\* acquired it from, also when configure replaced the pool in between: it is
\* available in no other pool and was handed to no caller of another pool.
C33_ReleasedToOwnPool ==
    EndedRun /\ ended.conn # 0 /\ holder[ended.conn] # ended.id =>
        LET own == runs[ended.id].pool
            h == ended.conn
        IN  /\ \A p \in PoolIds \ {own} : h \notin pools[p].available
            /\ holder[h] # 0 => runs[holder[h]].pool = own

\* Call c is a save in progress that issued an insert for instance i.
Inserting(c, i) ==
    /\ calls[c].op = "save" /\ calls[c].inst = i
    /\ InFlight(c) /\ calls[c].q.kind = "insert"

\* C34: an instance has at most one insert issued for it between its creation
\* and its next destroy, also when a second save starts before the first
\* save's callback has fired: no two consecutive calls are saves in progress
\* that each issued an insert for the same instance.
C34_OneInsertPerInstance ==
    \A i \in Instances : \A c \in CallIds :
        c + 1 \in CallIds => ~(Inserting(c, i) /\ Inserting(c + 1, i))

\* The row stored under key k is soft-deleted in table tbl.
SoftDeleted(tbl, k) == tbl[k] # <<>> /\ IsTime(tbl[k][1]["deleted"])

\* C35: once a row is soft-deleted its deleted field stays a time: no later
\* step, and so no later save of an instance bound to the row, sets it back
\* to null.
C35_SoftDeleteSticks ==
    [][\A k \in RowKeys : SoftDeleted(table, k) => SoftDeleted(table', k)]_vars

\* C36: when a physical destroy of a persisted instance has succeeded, the
\* instance is new again, and the save the caller makes next issues an
\* insert, not an update.
C36_InsertAfterDestroy ==
    EndedDestroy /\ Succeeded /\ ~softDelete /\ ~last.call.wasNew =>
        LET i == last.call.inst
            next == SaveSync(attributes[i], "function", "absent", "undefined", "none")
        IN  /\ isNew(attributes[i])
            /\ next.q.kind = "insert"

\* C37: within one save call of a model with timestamps, the decision to
\* stamp created and deleted (the instance was new at line 63) and the
\* decision to insert rather than update (line 70) agree, whatever attribute
\* is the primary key.
C37_StampAndWriteAgree ==
    \A c \in CallIds :
        calls[c].op = "save" /\ InFlight(c) /\ timestamps =>
            (calls[c].wasNew <=> calls[c].q.kind = "insert")

\* C38: run writes the handle it acquired into the options object its caller
\* supplied and never removes it: once run has called back, the caller's
\* options still refer to that handle, and the handle has been released to
\* the pool.
C38_OptionsKeepReleasedHandle ==
    EndedRun /\ ended.how # "uncaught" /\ ended.conn # 0 =>
        /\ runs[ended.id].options = ended.conn
        /\ holder[ended.conn] # ended.id

====
